---- MODULE Spec2Model ----
(***************************************************************************)
(* Model of prelude::list<A> (src/ListV7/ListTransparentMove.hpp, lines    *)
(* 287-879): an immutable singly linked list whose nodes carry a manual    *)
(* reference count.  The heap is a table of nodes, a handle is a list      *)
(* object holding the pointer _rep, and every public operation is one      *)
(* action.                                                                 *)
(***************************************************************************)
EXTENDS Integers, Sequences, FiniteSets, TLC

\* ---------------------------------------------------------------- bounds
MaxNodes   == 4      \* number of node allocations a behaviour may perform
NumHandles == 3      \* list objects that may be in scope besides EMPTY
MaxVal     == 1      \* element values are 1..MaxVal (no operation but a
                     \* filter predicate branches on a value)
MaxLen     == 2      \* longest initializer list
MaxK       == 2      \* largest count handed to take and drop

\* Bounds of the specification of the functions on values (SpecFn).
FnMaxLen   == 3      \* longest argument list
FnMaxVal   == 3      \* element values of the argument lists are 1..FnMaxVal
FnMaxK     == 4      \* counts handed to take and drop are -FnMaxK..FnMaxK

DeepMaxNodes == 5    \* nodes of the deep-copying List's heap
DeepMaxLen   == 2    \* longest initializer list of the deep-copying List
DeepMaxVal   == 2    \* its element values are 1..DeepMaxVal

UIntBits   == 16      \* width given to the parameter `unsigned k` of take and
                     \* drop: 32 in the build, which the checker's integers
                     \* cannot hold; all that a converted negative count does
                     \* is exceed the length of every list
NULL  == 0           \* nullptr
EMPTY == 0           \* the handle of the class-scoped constant list::EMPTY

Node    == 1..MaxNodes
Handle  == 0..NumHandles
Mutable == 1..NumHandles
Val     == 1..MaxVal

VARIABLES
    heap,     \* heap[n] = [st, _refs, _head, _tail]: the node at address n
    _rep,     \* _rep[h]: the node pointer held by list object h
    scope,    \* scope[h]: list object h has been constructed and not destroyed
    lastOp    \* the operation a behaviour ends with, "-" while none is recorded

vars == <<heap, _rep, scope, lastOp>>

\* Storage that was never handed out, or was handed back by delete.
Blank(s) == [st |-> s, _refs |-> 0, _head |-> 0, _tail |-> NULL]

Unused(h) == {n \in DOMAIN h : h[n].st = "unused"}
\* operator new: the lowest address never handed out (no address is reused,
\* so a stale pointer can be told from a live one).
Fresh(h) == CHOOSE n \in Unused(h) : \A m \in Unused(h) : n <= m
\* The heap still holds room for k more nodes.
CanAlloc(h, k) == Cardinality(Unused(h)) >= k
Allocated(h) == {n \in DOMAIN h : h[n].st # "unused"}
Live(h) == {n \in DOMAIN h : h[n].st = "live"}

\* ------------------------------------------------- acquire / release / node
\* A faulty acquire that hands the pointer on without counting the reference.
acquire_uncounted(h, n) == h

\* list::acquire.  Touching storage that is not a live node is undefined
\* behaviour: the node is marked "corrupt" and stays so.
acquire(h, n) ==
    IF n = NULL THEN h
    ELSE IF h[n].st # "live" THEN [h EXCEPT ![n].st = "corrupt"]
    ELSE [h EXCEPT ![n]._refs = @ + 1]

RECURSIVE release(_, _)
RECURSIVE node_dtor(_, _)
\* list::release: decrement, and delete the node when the count reaches zero.
release(h, n) ==
    IF n = NULL THEN h
    ELSE IF h[n].st # "live" \/ h[n]._refs = 0 THEN [h EXCEPT ![n].st = "corrupt"]
    ELSE LET h1 == [h EXCEPT ![n]._refs = @ - 1]
         IN  IF h1[n]._refs = 0 THEN node_dtor(h1, n) ELSE h1

\* delete n: node::~node releases _tail, then the storage is given back.
node_dtor(h, n) ==
    LET h1 == release(h, h[n]._tail)
    IN  [h1 EXCEPT ![n] = IF h1[n].st = "corrupt" THEN @ ELSE Blank("freed")]

\* Depth of nested node::~node activations that release(n) causes.
RECURSIVE dtor_depth(_, _)
dtor_depth(h, n) ==
    IF n = NULL \/ h[n].st # "live" \/ h[n]._refs # 1 THEN 0
    ELSE 1 + dtor_depth([h EXCEPT ![n]._refs = 0], h[n]._tail)

\* node::node(A x, node* xs)
new_node2(h, x, xs) ==
    [acquire(h, xs) EXCEPT ![Fresh(h)] =
        [st |-> "live", _refs |-> 0, _head |-> x, _tail |-> xs]]

\* node::node(A x)
new_node1(h, x) ==
    [h EXCEPT ![Fresh(h)] = [st |-> "live", _refs |-> 0, _head |-> x, _tail |-> NULL]]

\* ------------------------------------------------------------ observation
\* The first `fuel` values read from node n along _tail.
RECURSIVE contents(_, _, _)
contents(h, n, fuel) ==
    IF n = NULL \/ fuel = 0 THEN <<>>
    ELSE <<h[n]._head>> \o contents(h, h[n]._tail, fuel - 1)

\* The first `fuel` nodes met from n along _tail.
RECURSIVE chain(_, _, _)
chain(h, n, fuel) ==
    IF n = NULL \/ fuel = 0 THEN <<>>
    ELSE <<n>> \o chain(h, h[n]._tail, fuel - 1)

Range(s) == {s[i] : i \in 1..Len(s)}
Nodes(h, n) == chain(h, n, Len(h) + 1)
\* Following _tail from n reaches nullptr: a walk over the chain terminates.
Finite(h, n) == Len(Nodes(h, n)) <= Len(h)
Values(h, n) == contents(h, n, Len(h) + 1)

\* ------------------------------------------------------------------ state
InScope == {h \in Handle : scope[h]}
\* The storage of the next list object to be constructed.
NewHandle == CHOOSE d \in Mutable \ InScope : \A e \in Mutable \ InScope : d <= e
HasSlot == Mutable \ InScope # {}

\* A behaviour may record the operation it ends with: the record is what a
\* state shows of the operation that produced it, and nothing follows it.
Record(name) == lastOp' \in {"-", name}
Running == lastOp = "-"
\* The step is one that records its operation, as one of `names`.
Did(names) == lastOp' \in names

Init ==
    /\ heap = [n \in Node |-> Blank("unused")]
    /\ _rep = [h \in Handle |-> NULL]
    /\ scope = [h \in Handle |-> h = EMPTY]
    /\ lastOp = "-"

\* A list object d is constructed holding pointer r, on heap h.
Construct(h, r, op) ==
    /\ heap' = h
    /\ _rep' = [_rep EXCEPT ![NewHandle] = r]
    /\ scope' = [scope EXCEPT ![NewHandle] = TRUE]
    /\ Record(op)

\* list( A x, list const& xs ): _rep( acquire( new node( x, xs._rep ) ) )
cons_ctor(h, x, xs) ==
    [heap |-> acquire(new_node2(h, x, xs), Fresh(h)), rep |-> Fresh(h)]

\* list( A x ) : list( x, EMPTY )
list_singleton(x) ==
    /\ Running /\ HasSlot /\ CanAlloc(heap, 1)
    /\ LET r == cons_ctor(heap, x, _rep[EMPTY])
       IN  Construct(r.heap, r.rep, "list_singleton")

\* list( std::initializer_list<A> xs ): the loop from xs.end() down to xs.begin()
RECURSIVE init_loop(_, _, _, _)
init_loop(h, xs, i, rep) ==
    IF i = 0 THEN [heap |-> h, rep |-> rep]
    ELSE LET n == Fresh(h)
         IN  init_loop(acquire(new_node2(h, xs[i], rep), n), xs, i - 1, n)

InitLists == UNION {[1..k -> Val] : k \in 1..MaxLen}

list_init(xs) ==
    /\ Running /\ HasSlot /\ CanAlloc(heap, Len(xs))
    /\ LET r == init_loop(heap, xs, Len(xs), NULL)
       IN  Construct(r.heap, r.rep, "list_init")

\* list( list const& xs ) : _rep( acquire( xs._rep ) )
copy_construct(xs) ==
    /\ Running /\ HasSlot /\ scope[xs]
    /\ Construct(acquire(heap, _rep[xs]), _rep[xs],
                 "copy_construct")

\* list( list && xs ) : _rep( xs._rep ) { xs._rep = nullptr; }
move_construct(xs) ==
    /\ Running /\ HasSlot /\ scope[xs] /\ xs \in Mutable
    /\ heap' = heap
    /\ _rep' = [_rep EXCEPT ![NewHandle] = _rep[xs], ![xs] = NULL]
    /\ scope' = [scope EXCEPT ![NewHandle] = TRUE]
    /\ Record("move_construct")

\* ~list() { release( _rep ); }
destroy(d) ==
    /\ Running /\ d \in Mutable /\ scope[d]
    /\ heap' = release(heap, _rep[d])
    /\ _rep' = [_rep EXCEPT ![d] = NULL]
    /\ scope' = [scope EXCEPT ![d] = FALSE]
    /\ Record("destroy")

\* A faulty copy assignment that forgets the self-assignment test.
copy_assign_untested(d, xs) ==
    /\ Running /\ d \in Mutable /\ scope[d] /\ scope[xs]
    /\ heap' = acquire(release(heap, _rep[d]), _rep[xs])
    /\ _rep' = [_rep EXCEPT ![d] = _rep[xs]]
    /\ scope' = scope
    /\ Record("copy_assign")

\* list& operator= ( list const& xs )
copy_assign(d, xs) ==
    /\ Running /\ d \in Mutable /\ scope[d] /\ scope[xs]
    /\ IF _rep[d] # _rep[xs]
       THEN /\ heap' = acquire(release(heap, _rep[d]), _rep[xs])
            /\ _rep' = [_rep EXCEPT ![d] = _rep[xs]]
       ELSE UNCHANGED <<heap, _rep>>
    /\ scope' = scope
    /\ Record("copy_assign")

\* A faulty move assignment that counts the reference it takes over.
move_assign_counting(d, xs) ==
    /\ Running /\ d \in Mutable /\ xs \in Mutable /\ scope[d] /\ scope[xs]
    /\ heap' = acquire(release(heap, _rep[d]), _rep[xs])
    /\ _rep' = [[_rep EXCEPT ![d] = _rep[xs]] EXCEPT ![xs] = NULL]
    /\ scope' = scope
    /\ Record("move_assign")

\* list& operator= ( list && xs ): release( _rep ); _rep = xs._rep; xs._rep = nullptr
move_assign(d, xs) ==
    /\ Running /\ d \in Mutable /\ xs \in Mutable /\ scope[d] /\ scope[xs]
    /\ heap' = release(heap, _rep[d])
    /\ _rep' = [[_rep EXCEPT ![d] = _rep[xs]] EXCEPT ![xs] = NULL]
    /\ scope' = scope
    /\ Record("move_assign")

\* A faulty cons that links the new node past the node xs holds.
cons_skipping(h, x, arg) ==
    LET h1 == acquire(h, arg)
        r  == cons_ctor(h1, x, IF arg = NULL THEN NULL ELSE h1[arg]._tail)
    IN  [heap |-> release(r.heap, arg), rep |-> r.rep]

\* cons( A x, list<A> xs ) and operator|: the parameter xs is a copy of the
\* argument, the result is list<A>( x, xs ), then the parameter is destroyed.
cons_fn(h, x, arg) ==
    LET h1 == acquire(h, arg)
        r  == cons_ctor(h1, x, arg)
    IN  [heap |-> release(r.heap, arg), rep |-> r.rep]

cons(x, xs) ==
    /\ Running /\ HasSlot /\ scope[xs] /\ CanAlloc(heap, 1)
    /\ LET r == cons_fn(heap, x, _rep[xs])
       IN  Construct(r.heap, r.rep, "cons")

\* A faulty head that answers on the empty list instead of throwing.
head_lenient(h, arg) ==
    IF arg = NULL THEN [heap |-> h, throws |-> FALSE, value |-> 0]
    ELSE [heap |-> release(acquire(h, arg), arg), throws |-> FALSE,
          value |-> h[arg]._head]

\* head( list<A> xs ): throws on the empty list, else returns xs._rep->_head.
head_fn(h, arg) ==
    IF arg = NULL THEN [heap |-> h, throws |-> TRUE, value |-> 0]
    ELSE [heap |-> release(acquire(h, arg), arg), throws |-> FALSE,
          value |-> acquire(h, arg)[arg]._head]

head(xs) ==
    /\ Running /\ scope[xs]
    /\ LET r == head_fn(heap, _rep[xs])
       IN  /\ heap' = r.heap
           /\ Record(IF r.throws THEN "head_throw" ELSE "head")
    /\ UNCHANGED <<_rep, scope>>

\* tail( list<A> xs ): throws on the empty list, else list<A>( xs._rep->_tail ).
tail_fn(h, arg) ==
    IF arg = NULL THEN [heap |-> h, throws |-> TRUE, rep |-> NULL]
    ELSE LET h1 == acquire(h, arg)
             t  == h1[arg]._tail
         IN  [heap |-> release(acquire(h1, t), arg), throws |-> FALSE, rep |-> t]

tail(xs) ==
    /\ Running /\ scope[xs]
    /\ LET r == tail_fn(heap, _rep[xs])
       IN  IF r.throws
           THEN /\ Record("tail_throw")
                /\ UNCHANGED <<heap, _rep, scope>>
           ELSE /\ HasSlot
                /\ Construct(r.heap, r.rep, "tail")

\* A faulty last that answers the first value.
last_is_head(h, arg) == head_fn(h, arg)

\* last( list<A> xs ): the parameter is a copy of the argument; ys = tail( xs );
\* the answer is head( xs ) when ys is empty and last( ys ) otherwise.
RECURSIVE last_fn(_, _)
last_fn(h, arg) ==
    IF arg = NULL THEN [heap |-> h, throws |-> TRUE, value |-> 0]
    ELSE LET h1 == acquire(h, arg)
             ys == tail_fn(h1, arg)
         IN  IF ys.rep = NULL
             THEN LET hd == head_fn(ys.heap, arg)
                  IN  [heap |-> release(hd.heap, arg), throws |-> FALSE, value |-> hd.value]
             ELSE LET r == last_fn(ys.heap, ys.rep)
                  IN  [heap |-> release(release(r.heap, ys.rep), arg),
                       throws |-> FALSE, value |-> r.value]

last(xs) ==
    /\ Running /\ scope[xs] /\ Finite(heap, _rep[xs])
    /\ LET r == last_fn(heap, _rep[xs])
       IN  /\ heap' = r.heap
           /\ Record(IF r.throws THEN "last_throw" ELSE "last")
    /\ UNCHANGED <<_rep, scope>>

\* init( list<A> xs ): ys = tail( xs ); the answer is ys when ys is empty and
\* head( xs ) | init( ys ) otherwise, the temporary init( ys ) becoming the
\* parameter of operator|, which is destroyed after the result is built.
RECURSIVE init_fn(_, _)
init_fn(h, arg) ==
    IF arg = NULL THEN [heap |-> h, throws |-> TRUE, rep |-> NULL]
    ELSE LET h1 == acquire(h, arg)
             ys == tail_fn(h1, arg)
         IN  IF ys.rep = NULL
             THEN [heap |-> release(ys.heap, arg), throws |-> FALSE, rep |-> NULL]
             ELSE LET hd == head_fn(ys.heap, arg)
                      r  == init_fn(hd.heap, ys.rep)
                      c  == cons_ctor(r.heap, hd.value, r.rep)
                  IN  [heap |-> release(release(release(c.heap, r.rep), ys.rep), arg),
                       throws |-> FALSE, rep |-> c.rep]

init(xs) ==
    /\ Running /\ scope[xs] /\ Finite(heap, _rep[xs])
    /\ CanAlloc(heap, Len(Nodes(heap, _rep[xs])))
    /\ LET r == init_fn(heap, _rep[xs])
       IN  IF r.throws
           THEN /\ Record("init_throw")
                /\ UNCHANGED <<heap, _rep, scope>>
           ELSE /\ HasSlot
                /\ Construct(r.heap, r.rep, "init")

\* null( list<A> xs ): the parameter is a copy that is destroyed again, so the
\* heap is as before; the answer is !xs.
null(arg) == arg = NULL

\* The functions handed to map, and the predicates handed to filter.
Fn == {"id", "flip", "square"}
Apply(f, x) ==
    CASE f = "id"     -> x
      [] f = "flip"   -> MaxVal + 1 - x
      [] f = "square" -> x * x
Pred == {"alwaysTrue", "alwaysFalse", "even", "odd"}
Holds(p, x) ==
    CASE p = "alwaysTrue"  -> TRUE
      [] p = "alwaysFalse" -> FALSE
      [] p = "even"        -> x % 2 = 0
      [] p = "odd"         -> x % 2 = 1

\* map: the loop  while ( (from = from->_tail) ) { to = to->_tail = acquire( new node( f( from->_head ) ) ); }
RECURSIVE map_loop(_, _, _, _)
map_loop(h, f, from, to) ==
    LET nxt == h[from]._tail
    IN  IF nxt = NULL THEN h
        ELSE LET n  == Fresh(h)
                 h1 == acquire(new_node1(h, Apply(f, h[nxt]._head)), n)
             IN  map_loop([h1 EXCEPT ![to]._tail = n], f, nxt, n)

\* A faulty map that copies the first value without applying f.
map_unapplied_head(h, f, xs) ==
    IF null(xs) THEN [heap |-> h, rep |-> NULL]
    ELSE LET ys == cons_ctor(h, h[xs]._head, NULL)
         IN  [heap |-> map_loop(ys.heap, f, xs, ys.rep), rep |-> ys.rep]

\* map( F f, list<A> const& xs )
map_fn(h, f, xs) ==
    IF null(xs) THEN [heap |-> h, rep |-> NULL]
    ELSE LET ys == cons_ctor(h, Apply(f, h[xs]._head), NULL)
         IN  [heap |-> map_loop(ys.heap, f, xs, ys.rep), rep |-> ys.rep]

map(f, xs) ==
    /\ Running /\ HasSlot /\ scope[xs]
    /\ Finite(heap, _rep[xs]) /\ CanAlloc(heap, Len(Nodes(heap, _rep[xs])))
    /\ LET r == map_fn(heap, f, _rep[xs])
       IN  Construct(r.heap, r.rep, "map")

\* operator+ ( list<A> const& xs, list<A> const& ys ): the copying loop; it
\* returns the heap and the last node of the copy.
RECURSIVE append_loop(_, _, _)
append_loop(h, from, to) ==
    LET nxt == h[from]._tail
    IN  IF nxt = NULL THEN [heap |-> h, to |-> to]
        ELSE LET n  == Fresh(h)
                 h1 == acquire(new_node1(h, h[nxt]._head), n)
             IN  append_loop([h1 EXCEPT ![to]._tail = n], nxt, n)

\* A faulty append that copies xs and leaves ys out.
append_forgetting(h, xs, ys) ==
    IF null(xs) THEN [heap |-> acquire(h, ys), rep |-> ys]
    ELSE LET zs == cons_ctor(h, h[xs]._head, NULL)
         IN  [heap |-> append_loop(zs.heap, xs, zs.rep).heap, rep |-> zs.rep]

\* A faulty append that links the copy to ys without acquiring it.
append_unacquired(h, xs, ys) ==
    IF null(xs) THEN [heap |-> acquire(h, ys), rep |-> ys]
    ELSE LET zs == cons_ctor(h, h[xs]._head, NULL)
             l  == append_loop(zs.heap, xs, zs.rep)
         IN  [heap |-> [l.heap EXCEPT ![l.to]._tail = ys], rep |-> zs.rep]

\* append( xs, ys ) = xs + ys on two lvalues.
append_fn(h, xs, ys) ==
    IF null(xs) THEN [heap |-> acquire(h, ys), rep |-> ys]
    ELSE LET zs == cons_ctor(h, h[xs]._head, NULL)
             l  == append_loop(zs.heap, xs, zs.rep)
         IN  [heap |-> [acquire(l.heap, ys) EXCEPT ![l.to]._tail = ys], rep |-> zs.rep]

append(xs, ys) ==
    /\ Running /\ HasSlot /\ scope[xs] /\ scope[ys]
    /\ Finite(heap, _rep[xs]) /\ CanAlloc(heap, Len(Nodes(heap, _rep[xs])))
    /\ LET r == append_fn(heap, _rep[xs], _rep[ys])
       IN  Construct(r.heap, r.rep, "append")

\* The walk  while ( to->_tail ) { to = to->_tail; }  over a finite chain.
last_node(h, n) == Nodes(h, n)[Len(Nodes(h, n))]

\* operator+ ( list<A> && xs, list<A> const& ys )
append_rl(xs, ys) ==
    /\ Running /\ HasSlot /\ xs \in Mutable /\ scope[xs] /\ scope[ys]
    /\ Finite(heap, _rep[xs])
    /\ IF null(_rep[xs])
       THEN Construct(acquire(heap, _rep[ys]), _rep[ys], "append_rl")
       ELSE LET zs   == _rep[xs]
                rep1 == [_rep EXCEPT ![xs] = NULL]
                to   == last_node(heap, zs)
            IN  /\ heap' = [acquire(heap, rep1[ys]) EXCEPT ![to]._tail = rep1[ys]]
                /\ _rep' = [rep1 EXCEPT ![NewHandle] = zs]
                /\ scope' = [scope EXCEPT ![NewHandle] = TRUE]
                /\ Record("append_rl")

\* A faulty (&&,&&) append that counts a reference for the link it makes.
append_rr_counting(xs, ys) ==
    /\ Running /\ HasSlot /\ xs \in Mutable /\ ys \in Mutable /\ scope[xs] /\ scope[ys]
    /\ Finite(heap, _rep[xs])
    /\ IF null(_rep[xs])
       THEN Construct(acquire(heap, _rep[ys]), _rep[ys], "append_rr")
       ELSE LET zs   == _rep[xs]
                rep1 == [_rep EXCEPT ![xs] = NULL]
                to   == last_node(heap, zs)
            IN  /\ heap' = [acquire(heap, rep1[ys]) EXCEPT ![to]._tail = rep1[ys]]
                /\ _rep' = [[rep1 EXCEPT ![ys] = NULL] EXCEPT ![NewHandle] = zs]
                /\ scope' = [scope EXCEPT ![NewHandle] = TRUE]
                /\ Record("append_rr")

\* operator+ ( list<A> && xs, list<A> && ys ); "return ys" copies ys, a named
\* reference, under the -std=c++14 of src/build.sh.
append_rr(xs, ys) ==
    /\ Running /\ HasSlot /\ xs \in Mutable /\ ys \in Mutable /\ scope[xs] /\ scope[ys]
    /\ Finite(heap, _rep[xs])
    /\ IF null(_rep[xs])
       THEN Construct(acquire(heap, _rep[ys]), _rep[ys], "append_rr")
       ELSE LET zs   == _rep[xs]
                rep1 == [_rep EXCEPT ![xs] = NULL]
                to   == last_node(heap, zs)
            IN  /\ heap' = [heap EXCEPT ![to]._tail = rep1[ys]]
                /\ _rep' = [[rep1 EXCEPT ![ys] = NULL] EXCEPT ![NewHandle] = zs]
                /\ scope' = [scope EXCEPT ![NewHandle] = TRUE]
                /\ Record("append_rr")

\* filter( P pred, list<A> const& xs ): the loop over from, with ys._rep and to.
RECURSIVE filter_loop(_, _, _, _, _)
filter_loop(h, p, from, to, ys) ==
    IF from = NULL THEN [heap |-> h, rep |-> ys]
    ELSE IF Holds(p, h[from]._head)
         THEN LET n  == Fresh(h)
                  h1 == acquire(new_node1(h, h[from]._head), n)
              IN  IF to # NULL
                  THEN filter_loop([h1 EXCEPT ![to]._tail = n], p, h[from]._tail, n, ys)
                  ELSE filter_loop(h1, p, h[from]._tail, n, n)
         ELSE filter_loop(h, p, h[from]._tail, to, ys)

\* A faulty filter that gives up when the first value does not match.
filter_from_head(h, p, xs) ==
    IF xs # NULL /\ ~Holds(p, h[xs]._head) THEN [heap |-> h, rep |-> NULL]
    ELSE filter_loop(h, p, xs, NULL, NULL)

filter_fn(h, p, xs) == filter_loop(h, p, xs, NULL, NULL)

filter(p, xs) ==
    /\ Running /\ HasSlot /\ scope[xs]
    /\ Finite(heap, _rep[xs])
    /\ CanAlloc(heap, Cardinality({n \in Range(Nodes(heap, _rep[xs])) : Holds(p, heap[n]._head)}))
    /\ LET r == filter_fn(heap, p, _rep[xs])
       IN  Construct(r.heap, r.rep, "filter")

\* reverse: the loop  while ( (from = from->_tail) ) { to = new node( from->_head, to ); }
RECURSIVE reverse_loop(_, _, _)
reverse_loop(h, from, to) ==
    LET nxt == h[from]._tail
    IN  IF nxt = NULL THEN [heap |-> h, to |-> to]
        ELSE reverse_loop(new_node2(h, h[nxt]._head, to), nxt, Fresh(h))

\* A faulty reverse that copies xs in its own order.
reverse_copying(h, xs) == append_fn(h, xs, NULL)

\* A faulty reverse that hands a list of one value back as a shared copy.
reverse_sharing(h, xs) ==
    IF xs = NULL THEN [heap |-> h, rep |-> NULL]
    ELSE IF h[xs]._tail = NULL THEN [heap |-> acquire(h, xs), rep |-> xs]
    ELSE LET l == reverse_loop(new_node1(h, h[xs]._head), xs, Fresh(h))
         IN  [heap |-> acquire(l.heap, l.to), rep |-> l.to]

\* reverse( list<A> const& xs )
reverse_fn(h, xs) ==
    IF xs = NULL THEN [heap |-> h, rep |-> NULL]
    ELSE LET l == reverse_loop(new_node1(h, h[xs]._head), xs, Fresh(h))
         IN  [heap |-> acquire(l.heap, l.to), rep |-> l.to]

reverse(xs) ==
    /\ Running /\ HasSlot /\ scope[xs]
    /\ Finite(heap, _rep[xs]) /\ CanAlloc(heap, Len(Nodes(heap, _rep[xs])))
    /\ LET r == reverse_fn(heap, _rep[xs])
       IN  Construct(r.heap, r.rep, "reverse")

\* take: the loop  while ( --k > 0 && (from = from->_tail) ) { ... }
RECURSIVE take_loop(_, _, _, _)
take_loop(h, k, from, to) ==
    IF ~(k - 1 > 0) \/ h[from]._tail = NULL THEN h
    ELSE LET nxt == h[from]._tail
             n   == Fresh(h)
             h1  == acquire(new_node1(h, h[nxt]._head), n)
         IN  take_loop([h1 EXCEPT ![to]._tail = n], k - 1, nxt, n)

\* A faulty take that copies one value less than asked for.
take_short(h, k, xs) ==
    IF k <= 1 \/ xs = NULL THEN [heap |-> h, rep |-> NULL]
    ELSE LET ys == cons_ctor(h, h[xs]._head, NULL)
         IN  [heap |-> take_loop(ys.heap, k - 1, xs, ys.rep), rep |-> ys.rep]

\* A faulty take that answers the empty list when k exceeds the length.
take_strict(h, k, xs) ==
    IF k <= 0 \/ xs = NULL \/ k > Len(chain(h, xs, k)) THEN [heap |-> h, rep |-> NULL]
    ELSE LET ys == cons_ctor(h, h[xs]._head, NULL)
         IN  [heap |-> take_loop(ys.heap, k, xs, ys.rep), rep |-> ys.rep]

\* take( unsigned k, list<A> const& xs )
take_fn(h, k, xs) ==
    IF k <= 0 \/ xs = NULL THEN [heap |-> h, rep |-> NULL]
    ELSE LET ys == cons_ctor(h, h[xs]._head, NULL)
         IN  [heap |-> take_loop(ys.heap, k, xs, ys.rep), rep |-> ys.rep]

take(k, xs) ==
    /\ Running /\ HasSlot /\ scope[xs]
    /\ CanAlloc(heap, Len(chain(heap, _rep[xs], k)))
    /\ LET r == take_fn(heap, k, _rep[xs])
       IN  Construct(r.heap, r.rep, "take")

\* drop: the loop  while ( k-- > 0 && to ) { to = to->_tail; }
RECURSIVE drop_loop(_, _, _)
drop_loop(h, k, to) ==
    IF k > 0 /\ to # NULL THEN drop_loop(h, k - 1, h[to]._tail) ELSE to

\* A faulty drop that hands out the node it lands on without acquiring it.
drop_unacquired(h, k, xs) ==
    IF k <= 0 THEN [heap |-> acquire(h, xs), rep |-> xs]
    ELSE [heap |-> h, rep |-> drop_loop(h, k, xs)]

\* drop( unsigned k, list<A> const& xs )
drop_fn(h, k, xs) ==
    IF k <= 0 THEN [heap |-> acquire(h, xs), rep |-> xs]
    ELSE [heap |-> acquire(h, drop_loop(h, k, xs)), rep |-> drop_loop(h, k, xs)]

drop(k, xs) ==
    /\ Running /\ HasSlot /\ scope[xs]
    /\ LET r == drop_fn(heap, k, _rep[xs])
       IN  Construct(r.heap, r.rep, "drop")

\* A faulty splice that drops ys when xs is a single node.
append_rr_short(h, xs, ys) ==
    IF null(xs) THEN [heap |-> acquire(h, ys), rep |-> ys, xs |-> xs, ys |-> ys]
    ELSE IF h[xs]._tail = NULL
         THEN [heap |-> release(h, ys), rep |-> xs, xs |-> NULL, ys |-> NULL]
         ELSE [heap |-> [h EXCEPT ![last_node(h, xs)]._tail = ys],
               rep |-> xs, xs |-> NULL, ys |-> NULL]

\* operator+ ( list<A> && xs, list<A> && ys ) on two temporaries holding xs
\* and ys: the result, and what the two temporaries hold afterwards.
append_rr_fn(h, xs, ys) ==
    IF null(xs) THEN [heap |-> acquire(h, ys), rep |-> ys, xs |-> xs, ys |-> ys]
    ELSE [heap |-> [h EXCEPT ![last_node(h, xs)]._tail = ys],
          rep |-> xs, xs |-> NULL, ys |-> NULL]

\* The expression  append( take( k, xs ), drop( k, xs ) ): the temporaries
\* bind to list const&, and are destroyed once the result is built.
append_take_drop(k, xs) ==
    /\ Running /\ HasSlot /\ scope[xs]
    /\ CanAlloc(heap, 2 * Len(chain(heap, _rep[xs], k)))
    /\ LET t == take_fn(heap, k, _rep[xs])
           d == drop_fn(t.heap, k, _rep[xs])
           r == append_fn(d.heap, t.rep, d.rep)
       IN  Construct(release(release(r.heap, d.rep), t.rep), r.rep, "append_take_drop")

\* The expression  take( k, xs ) + drop( k, xs ): the temporaries bind to
\* list&&, and are destroyed once the result is built.
plus_take_drop(k, xs) ==
    /\ Running /\ HasSlot /\ scope[xs]
    /\ CanAlloc(heap, Len(chain(heap, _rep[xs], k)))
    /\ LET t == take_fn(heap, k, _rep[xs])
           d == drop_fn(t.heap, k, _rep[xs])
           r == append_rr_fn(d.heap, t.rep, d.rep)
       IN  Construct(release(release(r.heap, r.ys), r.xs), r.rep, "plus_take_drop")

\* The expression  reverse( reverse( xs ) ): the inner result is a temporary,
\* destroyed once the outer result is built.
reverse_reverse(xs) ==
    /\ Running /\ HasSlot /\ scope[xs]
    /\ Finite(heap, _rep[xs]) /\ CanAlloc(heap, 2 * Len(Nodes(heap, _rep[xs])))
    /\ LET t == reverse_fn(heap, _rep[xs])
           r == reverse_fn(t.heap, t.rep)
       IN  Construct(release(r.heap, t.rep), r.rep, "reverse_reverse")

\* The expression  append( init( xs ), list<A>( last( xs ) ) ): the two
\* operands are temporaries, destroyed once the result is built; init throws
\* on the empty list.
append_init_last(xs) ==
    /\ Running /\ scope[xs] /\ Finite(heap, _rep[xs])
    /\ CanAlloc(heap, 2 * Len(Nodes(heap, _rep[xs])))
    /\ IF null(_rep[xs])
       THEN /\ Record("append_init_last_throw")
            /\ UNCHANGED <<heap, _rep, scope>>
       ELSE /\ HasSlot
            /\ LET i == init_fn(heap, _rep[xs])
                   l == last_fn(i.heap, _rep[xs])
                   s == cons_ctor(l.heap, l.value, _rep[EMPTY])
                   r == append_fn(s.heap, i.rep, s.rep)
               IN  Construct(release(release(r.heap, s.rep), i.rep), r.rep,
                             "append_init_last")

\* length: the loop  while ( e ) { ++n; e = e->_tail; }
RECURSIVE length_loop(_, _, _)
length_loop(h, n, e) == IF e # NULL THEN length_loop(h, n + 1, h[e]._tail) ELSE n

\* length( list<A> const& xs )
length(h, xs) == length_loop(h, 0, xs)

\* sum: the loop  while ( e ) { result += e->_head; e = e->_tail; }
RECURSIVE sum_loop(_, _, _)
sum_loop(h, result, e) ==
    IF e # NULL THEN sum_loop(h, result + h[e]._head, h[e]._tail) ELSE result

\* A faulty sum that leaves the first value out.
sum_of_tail(h, xs) == IF xs = NULL THEN 0 ELSE sum_loop(h, 0, h[xs]._tail)

\* sum( list<A> const& xs ), with A result = 0
sum_fn(h, xs) == sum_loop(h, 0, xs)

sum(xs) ==
    /\ Running /\ scope[xs] /\ Finite(heap, _rep[xs])
    /\ Record("sum")
    /\ UNCHANGED <<heap, _rep, scope>>

\* os << n->_head for an integral A: a minus sign for a negative value, then
\* the decimal digits; each character is a string of length one.
Digit(d) == <<"0", "1", "2", "3", "4", "5", "6", "7", "8", "9">>[d + 1]

RECURSIVE show(_)
show(x) ==
    IF x < 0 THEN <<"-">> \o show(-x)
    ELSE IF x < 10 THEN <<Digit(x)>>
    ELSE Append(show(x \div 10), Digit(x % 10))

\* operator<<: the loop  while ( (n = n->_tail) ) { os << ',' << n->_head; }
RECURSIVE render_loop(_, _, _)
render_loop(h, os, n) ==
    IF h[n]._tail # NULL
    THEN render_loop(h, os \o <<",">> \o show(h[h[n]._tail]._head), h[n]._tail)
    ELSE os

\* A faulty rendering that writes a comma after every value.
RECURSIVE render_each(_, _, _)
render_each(h, os, n) ==
    IF n # NULL THEN render_each(h, os \o show(h[n]._head) \o <<",">>, h[n]._tail)
    ELSE os

render_trailing(h, xs) == render_each(h, <<"[">>, xs) \o <<"]">>

\* operator<<( std::ostream& os, list<A> const& xs ): the characters written
render_fn(h, xs) ==
    (IF xs # NULL THEN render_loop(h, <<"[">> \o show(h[xs]._head), xs)
     ELSE <<"[">>) \o <<"]">>

render(xs) ==
    /\ Running /\ scope[xs] /\ Finite(heap, _rep[xs])
    /\ Record("render")
    /\ UNCHANGED <<heap, _rep, scope>>

\* operator==: the loop  while ( xs_ && ys_ ) { ... }
RECURSIVE eq_loop(_, _, _)
eq_loop(h, xs_, ys_) ==
    IF xs_ # NULL /\ ys_ # NULL
    THEN IF h[xs_]._head # h[ys_]._head THEN FALSE
         ELSE eq_loop(h, h[xs_]._tail, h[ys_]._tail)
    ELSE xs_ = ys_

\* A faulty equality that compares the two pointers only.
eq_by_identity(h, xs, ys) == xs = ys

\* operator== ( list<B> const& xs, list<B> const& ys )
eq(h, xs, ys) == IF xs = ys THEN TRUE ELSE eq_loop(h, xs, ys)

\* The expression  xs == ys  on two list objects; its answer is recorded.
equals(xs, ys) ==
    /\ Running /\ scope[xs] /\ scope[ys]
    /\ _rep[xs] = _rep[ys] \/ Finite(heap, _rep[xs]) \/ Finite(heap, _rep[ys])
    /\ Record(IF eq(heap, _rep[xs], _rep[ys]) THEN "eq_true" ELSE "eq_false")
    /\ UNCHANGED <<heap, _rep, scope>>

Next ==
    \/ \E x \in Val : list_singleton(x)
    \/ \E xs \in InitLists : list_init(xs)
    \/ \E xs \in Handle : copy_construct(xs)
    \/ \E xs \in Handle : move_construct(xs)
    \/ \E d \in Handle : destroy(d)
    \/ \E d, xs \in Handle : copy_assign(d, xs)
    \/ \E d, xs \in Handle : move_assign(d, xs)
    \/ \E x \in Val, xs \in Handle : cons(x, xs)
    \/ \E xs \in Handle : head(xs)
    \/ \E xs \in Handle : tail(xs)
    \/ \E k \in 0..MaxK, xs \in Handle : drop(k, xs)
    \/ \E k \in 0..MaxK, xs \in Handle : take(k, xs)
    \/ \E f \in Fn, xs \in Handle : map(f, xs)
    \/ \E p \in Pred, xs \in Handle : filter(p, xs)
    \/ \E xs \in Handle : reverse(xs)
    \/ \E xs, ys \in Handle : append(xs, ys)
    \/ \E xs, ys \in Handle : append_rl(xs, ys)
    \/ \E xs, ys \in Handle : append_rr(xs, ys)

Spec == Init /\ [][Next]_vars

\* ------------------------------------------- the functions on values
\* A second specification: the program holds two lists xs and ys, built
\* from initializer lists, and applies one function of the library to them.
FnNode  == 1..(4 * FnMaxLen)
FnVal   == 1..FnMaxVal
FnLists == UNION {[1..k -> FnVal] : k \in 0..FnMaxLen}
FnArg   == {1, 2}
FnK     == (0 - FnMaxK)..FnMaxK

\* The conversion of an int argument to the parameter `unsigned k`.
unsigned(k) == k % (2 ^ UIntBits)

InitFn ==
    \E a, b \in FnLists :
        LET xs == init_loop([n \in FnNode |-> Blank("unused")], a, Len(a), NULL)
            ys == init_loop(xs.heap, b, Len(b), NULL)
        IN  /\ heap = ys.heap
            /\ _rep = [h \in Handle |-> IF h = 1 THEN xs.rep ELSE IF h = 2 THEN ys.rep ELSE NULL]
            /\ scope = [h \in Handle |-> h \in {EMPTY} \cup FnArg]
            /\ lastOp = "-"

NextFn ==
    \/ \E xs \in FnArg : head(xs)
    \/ \E xs \in FnArg : tail(xs)
    \/ \E xs \in FnArg : last(xs)
    \/ \E xs \in FnArg : init(xs)
    \/ \E xs, ys \in FnArg : append(xs, ys)
    \/ \E k \in FnK, xs \in FnArg : take(unsigned(k), xs)
    \/ \E k \in FnK, xs \in FnArg : drop(unsigned(k), xs)
    \/ \E xs \in FnArg : reverse(xs)
    \/ \E p \in Pred, xs \in FnArg : filter(p, xs)
    \/ \E k \in FnK, xs \in FnArg : append_take_drop(unsigned(k), xs)
    \/ \E k \in FnK, xs \in FnArg : plus_take_drop(unsigned(k), xs)
    \/ \E xs \in FnArg : reverse_reverse(xs)
    \/ \E f \in Fn, xs \in FnArg : map(f, xs)
    \/ \E x \in FnVal, xs \in FnArg : cons(x, xs)
    \/ \E xs \in FnArg, ys \in Mutable : equals(xs, ys)
    \/ \E xs \in FnArg : append_init_last(xs)
    \/ \E xs \in FnArg : sum(xs)
    \/ \E xs \in FnArg : render(xs)

SpecFn == InitFn /\ [][NextFn]_vars

\* ------------------------------- the std::shared_ptr-backed class List
\* In this class a list object's pointer is called _head and a node holds
\* _datum and _tail; std::shared_ptr keeps the counts.  The variable _rep
\* holds each list object's _head, and heap[n] = [st, _datum, _tail].
SharedNode == 1..(2 * FnMaxLen)

\* std::make_shared<Node>( x, xs )
make_shared(h, x, xs) ==
    [h EXCEPT ![Fresh(h)] = [st |-> "live", _datum |-> x, _tail |-> xs]]

\* List( std::initializer_list<T> xs ): from the last value to the first,
\* _head = std::make_shared<Node>( *i, _head )
RECURSIVE shared_init_loop(_, _, _, _)
shared_init_loop(h, xs, i, head_) ==
    IF i = 0 THEN [heap |-> h, rep |-> head_]
    ELSE shared_init_loop(make_shared(h, xs[i], head_), xs, i - 1, Fresh(h))

\* The values read from node n along _tail.
RECURSIVE shared_Values(_, _)
shared_Values(h, n) ==
    IF n = NULL THEN <<>> ELSE <<h[n]._datum>> \o shared_Values(h, h[n]._tail)

\* filter: the loop over from.  `to` is a copy of the empty ys._head, and
\* the store  to->_tail = ...  through a null `to` is undefined behaviour.
RECURSIVE shared_filter_loop(_, _, _, _)
shared_filter_loop(h, p, from, to) ==
    IF from = NULL THEN [heap |-> h, ub |-> FALSE]
    ELSE IF Holds(p, h[from]._datum)
         THEN IF to = NULL THEN [heap |-> h, ub |-> TRUE]
              ELSE LET n == Fresh(h)
                   IN  shared_filter_loop(
                           [make_shared(h, h[from]._datum, NULL) EXCEPT ![to]._tail = n],
                           p, h[from]._tail, n)
         ELSE shared_filter_loop(h, p, h[from]._tail, to)

\* filter( P pred, List<U> const& xs ): nothing assigns ys._head, so the
\* list returned is the empty one the function began with.
shared_filter_fn(h, p, xs) ==
    LET l == shared_filter_loop(h, p, xs, NULL)
    IN  [heap |-> l.heap, rep |-> NULL, ub |-> l.ub]

\* After the undefined store the call either faults, and the program ends
\* there, or goes on to return ys.
shared_filter(p, xs) ==
    /\ Running /\ HasSlot /\ scope[xs]
    /\ LET r == shared_filter_fn(heap, p, _rep[xs])
       IN  \/ Construct(r.heap, r.rep, "shared_filter")
           \/ r.ub /\ lastOp' = "shared_filter_fault" /\ UNCHANGED <<heap, _rep, scope>>

InitShared ==
    \E a \in FnLists :
        LET xs == shared_init_loop(
                      [n \in SharedNode |-> [st |-> "unused", _datum |-> 0, _tail |-> NULL]],
                      a, Len(a), NULL)
        IN  /\ heap = xs.heap
            /\ _rep = [h \in Handle |-> IF h = 1 THEN xs.rep ELSE NULL]
            /\ scope = [h \in Handle |-> h \in {EMPTY, 1}]
            /\ lastOp = "-"

NextShared == \E p \in Pred, xs \in {EMPTY, 1} : shared_filter(p, xs)

SpecShared == InitShared /\ [][NextShared]_vars

\* ----------------------------------- the raw-pointer deep-copying List
\* Here too a list object's pointer is _head (held in _rep) and heap[n] =
\* [st, _datum, _tail]; a node belongs to one chain and ~Node deletes _tail.
DeepNode  == 1..DeepMaxNodes
DeepLists == UNION {[1..k -> 1..DeepMaxVal] : k \in 0..DeepMaxLen}

\* new Node( x, xs )
new_Node(h, x, xs) ==
    [h EXCEPT ![Fresh(h)] = [st |-> "live", _datum |-> x, _tail |-> xs]]

\* delete n: nothing for nullptr; ~Node deletes _tail, then the storage is
\* given back.  Deleting storage that is not a live node is undefined
\* behaviour: the node is marked "corrupt" and stays so.
RECURSIVE delete_Node(_, _)
delete_Node(h, n) ==
    IF n = NULL THEN h
    ELSE IF h[n].st # "live" THEN [h EXCEPT ![n].st = "corrupt"]
    ELSE LET h1 == delete_Node(h, h[n]._tail)
         IN  [h1 EXCEPT ![n] = IF h1[n].st = "corrupt" THEN @
                               ELSE [st |-> "freed", _datum |-> 0, _tail |-> NULL]]

\* The loop  while ((n = n->_tail)) { copy = copy->_tail = new Node(n->_datum, nullptr); }
RECURSIVE deep_copy_loop(_, _, _)
deep_copy_loop(h, n, copy) ==
    LET nxt == h[n]._tail
    IN  IF nxt = NULL THEN h
        ELSE IF h[nxt].st # "live" THEN [h EXCEPT ![nxt].st = "corrupt"]
        ELSE LET c == Fresh(h)
             IN  deep_copy_loop([new_Node(h, h[nxt]._datum, NULL) EXCEPT ![copy]._tail = c],
                                nxt, c)

\* The body shared by List( Node* n ) and operator=:  if (n) { _head = new
\* Node(n->_datum, nullptr); ...loop... }, _head being head_ before it.
\* Reading a node that is not live is undefined behaviour, marked "corrupt".
deep_copy(h, n, head_) ==
    IF n = NULL THEN [heap |-> h, rep |-> head_]
    ELSE IF h[n].st # "live" THEN [heap |-> [h EXCEPT ![n].st = "corrupt"], rep |-> head_]
    ELSE LET c == Fresh(h)
         IN  [heap |-> deep_copy_loop(new_Node(h, h[n]._datum, NULL), n, c), rep |-> c]

\* List( std::initializer_list<T> xs ): from the last value to the first,
\* _head = new Node( *i, _head )
RECURSIVE deep_init_loop(_, _, _, _)
deep_init_loop(h, xs, i, head_) ==
    IF i = 0 THEN [heap |-> h, rep |-> head_]
    ELSE deep_init_loop(new_Node(h, xs[i], head_), xs, i - 1, Fresh(h))

deep_list_init(xs) ==
    /\ Running /\ HasSlot /\ CanAlloc(heap, Len(xs))
    /\ LET r == deep_init_loop(heap, xs, Len(xs), NULL)
       IN  Construct(r.heap, r.rep, "deep_list_init")

\* List( List const& xs ) : List( xs._head )
deep_copy_construct(xs) ==
    /\ Running /\ HasSlot /\ scope[xs]
    /\ CanAlloc(heap, Len(Nodes(heap, _rep[xs])))
    /\ LET r == deep_copy(heap, _rep[xs], NULL)
       IN  Construct(r.heap, r.rep, "deep_copy_construct")

\* ~List() { delete this->_head; }
deep_destroy(d) ==
    /\ Running /\ d \in Mutable /\ scope[d]
    /\ heap' = delete_Node(heap, _rep[d])
    /\ _rep' = [_rep EXCEPT ![d] = NULL]
    /\ scope' = [scope EXCEPT ![d] = FALSE]
    /\ Record("deep_destroy")

\* List& operator= ( List const& xs ): delete this->_head, then the copy of
\* xs when xs is not empty; _head is not written otherwise.  The function
\* ends without a return statement, which is undefined behaviour in a
\* function returning List&: the call either comes back to its caller or
\* faults, and the program ends there.
deep_copy_assign(d, xs) ==
    /\ Running /\ d \in Mutable /\ scope[d] /\ scope[xs]
    /\ CanAlloc(heap, Len(Nodes(heap, _rep[xs])))
    /\ LET r == deep_copy(delete_Node(heap, _rep[d]), _rep[xs], _rep[d])
       IN  /\ heap' = r.heap
           /\ _rep' = [_rep EXCEPT ![d] = r.rep]
    /\ UNCHANGED scope
    /\ Record("deep_assign") \/ lastOp' = "deep_assign_fault"

\* The values read from node n along _tail.
RECURSIVE deep_Values(_, _)
deep_Values(h, n) ==
    IF n = NULL THEN <<>> ELSE <<h[n]._datum>> \o deep_Values(h, h[n]._tail)

InitDeep ==
    /\ heap = [n \in DeepNode |-> [st |-> "unused", _datum |-> 0, _tail |-> NULL]]
    /\ _rep = [h \in Handle |-> NULL]
    /\ scope = [h \in Handle |-> h = EMPTY]
    /\ lastOp = "-"

NextDeep ==
    \/ \E xs \in DeepLists : deep_list_init(xs)
    \/ \E xs \in Handle : deep_copy_construct(xs)
    \/ \E d, xs \in Handle : deep_copy_assign(d, xs)
    \/ \E d \in Handle : deep_destroy(d)

SpecDeep == InitDeep /\ [][NextDeep]_vars

\* ----------------------------------------------------------------- claims
HandleRefs(n) == Cardinality({h \in InScope : _rep[h] = n})
TailRefs(n)   == Cardinality({m \in Live(heap) : heap[m]._tail = n})

\* C1: every live node's _refs equals the number of list objects in scope
\* whose _rep points at it plus the number of live nodes whose _tail points
\* at it.
C1_RefcountExact ==
    \A n \in Live(heap) : heap[n]._refs = HandleRefs(n) + TailRefs(n)

\* C2: a node stays allocated only while some list object in scope reaches
\* it; once every handle that referred to a chain is destroyed each of its
\* nodes has been freed, and freed once (a second delete corrupts the node).
C2_NoLeakNoDoubleFree ==
    \A n \in Node :
        /\ heap[n].st # "corrupt"
        /\ heap[n].st = "live" =>
               \E h \in InScope : n \in Range(Nodes(heap, _rep[h]))

\* C3: every list object in scope is empty or points at a live node, every
\* _tail of a live node is null or points at a live node, and no operation
\* has touched storage that is not a live node.
C3_NoDangling ==
    /\ \A h \in InScope : _rep[h] = NULL \/ heap[_rep[h]].st = "live"
    /\ \A n \in Live(heap) : heap[n]._tail = NULL \/ heap[heap[n]._tail].st = "live"
    /\ \A n \in Node : heap[n].st # "corrupt"

\* C3 witness: a release freed a node while the chains left in scope share
\* a node: one list object holds it and the head of another's chain links to it.
C3_Witness ==
    /\ lastOp \in {"destroy", "copy_assign", "move_assign"}
    /\ \E n \in Node : heap[n].st = "freed"
    /\ \E a, b \in InScope :
           /\ _rep[a] # NULL /\ _rep[b] # NULL /\ _rep[a] # _rep[b]
           /\ heap[_rep[b]]._tail = _rep[a]
           /\ heap[_rep[a]].st = "live" /\ heap[_rep[a]]._refs = 2

\* The values list object h shows are the same after the step as before it.
SameValues(h) == Values(heap', _rep'[h]) = Values(heap, _rep[h])
\* Every list object in scope before and after the step, other than the ones
\* in `given` (operands handed over by std::move), shows the same values.
OthersKeep(given) ==
    \A h \in Handle \ given : scope[h] /\ scope'[h] => SameValues(h)

LvalueOps ==
    {"head", "head_throw", "tail", "tail_throw", "cons", "map", "filter", "reverse", "take", "drop", "append"}
LibraryOps == LvalueOps \cup {"append_rl", "append_rr"}

\* C4: head, tail, cons, map, filter, the three appends, reverse, take and
\* drop leave the values seen through every other list object unchanged.
C4_OthersUnchanged ==
    [][ Did(LibraryOps) =>
        /\ \A xs \in Handle :
              \/ head(xs) \/ tail(xs) \/ reverse(xs)
              \/ \E x \in Val : cons(x, xs)
              \/ \E f \in Fn : map(f, xs)
              \/ \E p \in Pred : filter(p, xs)
              \/ \E k \in 0..MaxK : take(k, xs) \/ drop(k, xs)
              \/ \E ys \in Handle : append(xs, ys)
              => OthersKeep({})
        /\ \A xs, ys \in Handle : append_rl(xs, ys) => OthersKeep({xs})
        /\ \A xs, ys \in Handle : append_rr(xs, ys) => OthersKeep({xs, ys}) ]_vars

\* The same for the operations that take no operand by rvalue reference.
C4_LvalueOpsKeep ==
    [][ Did(LvalueOps) =>
        \A xs \in Handle :
              \/ head(xs) \/ tail(xs) \/ reverse(xs)
              \/ \E x \in Val : cons(x, xs)
              \/ \E f \in Fn : map(f, xs)
              \/ \E p \in Pred : filter(p, xs)
              \/ \E k \in 0..MaxK : take(k, xs) \/ drop(k, xs)
              \/ \E ys \in Handle : append(xs, ys)
              => OthersKeep({}) ]_vars

\* The chain of list object xs is observed by nobody else: no other list
\* object in scope points into it and no live node outside it links into it.
Unobserved(xs) ==
    LET c == Range(Nodes(heap, _rep[xs]))
    IN  /\ \A h \in InScope \ {xs} : _rep[h] \notin c
        /\ \A m \in Live(heap) \ c : heap[m]._tail \notin c
\* ... and every node of it counts exactly one reference.
UniquelyOwned(xs) ==
    Unobserved(xs) /\ \A n \in Range(Nodes(heap, _rep[xs])) : heap[n]._refs = 1

\* Some node that existed before the step has another _tail after it.
Relinked == \E n \in Live(heap) : heap'[n]._tail # heap[n]._tail

\* C5: an append with an rvalue left operand relinks an existing node's
\* _tail only when the left operand's chain is uniquely owned.
C5_SpliceOnlyWhenUnique ==
    [][ Did({"append_rl", "append_rr"}) =>
        \A xs, ys \in Handle :
            (append_rl(xs, ys) \/ append_rr(xs, ys)) /\ Relinked
            => Unobserved(xs) ]_vars

\* C6: list{x1..xn} yields a chain of n nodes allocated by the call that
\* reads x1..xn from the head, each with _refs = 1.
C6_InitListFresh ==
    [][ Did({"list_init"}) =>
        \A xs \in InitLists :
            list_init(xs) =>
                LET c == Nodes(heap', _rep'[NewHandle])
                IN  /\ Values(heap', _rep'[NewHandle]) = xs
                    /\ Len(c) = Len(xs)
                    /\ \A i \in 1..Len(c) :
                           /\ c[i] \in Unused(heap)
                           /\ heap'[c[i]]._refs = 1 ]_vars

\* C7: destroying the only list object that owns a chain runs at most one
\* node destructor at a time, whatever the length of the chain.
C7_ReleaseIterative ==
    [][ Did({"destroy"}) =>
        \A d \in Handle :
            destroy(d) /\ UniquelyOwned(d) => dtor_depth(heap, _rep[d]) <= 1 ]_vars

\* The step allocated exactly the nodes in `new`, and freed none.
AllocatedJust(new) ==
    /\ new \subseteq Unused(heap)
    /\ Allocated(heap') = Allocated(heap) \cup new
    /\ Live(heap') = Live(heap) \cup new
\* Node n is as before the step, but for its reference count.
SameNodeButRefs(n) ==
    /\ heap'[n].st = heap[n].st
    /\ heap'[n]._head = heap[n]._head
    /\ heap'[n]._tail = heap[n]._tail

\* C8: cons(x, xs) allocates one node; head of the result is x and tail of
\* the result is the very node xs holds; no node that existed is copied or
\* changed, but for the count of the node xs holds.
C8_ConsShares ==
    [][ Did({"cons"}) =>
        \A x \in Val, xs \in Handle :
            cons(x, xs) =>
                LET r == _rep'[NewHandle]
                IN  /\ AllocatedJust({r})
                    /\ ~head_fn(heap', r).throws
                    /\ head_fn(heap', r).value = x
                    /\ ~tail_fn(heap', r).throws
                    /\ tail_fn(heap', r).rep = _rep[xs]
                    /\ heap'[r]._refs = 1
                    /\ \A n \in Live(heap) :
                           /\ SameNodeButRefs(n)
                           /\ heap'[n]._refs =
                                  heap[n]._refs + (IF n = _rep[xs] THEN 1 ELSE 0) ]_vars

\* C8 witness: cons ran on a non-empty list, which still holds its node.
C8_Witness ==
    /\ lastOp = "cons"
    /\ \E d, xs \in InScope :
           /\ d # xs /\ _rep[d] # NULL /\ _rep[xs] # NULL
           /\ heap[_rep[d]]._tail = _rep[xs]
           /\ heap[_rep[d]]._refs = 1

\* The nodes of the result of append(xs, ys) that stand for the elements of xs.
Copied(xs) == SubSeq(Nodes(heap', _rep'[NewHandle]), 1, Len(Nodes(heap, _rep[xs])))

\* What C9 states of append(xs, ys) on lvalues, but for the counts of xs.
AppendShape(xs, ys) ==
    IF _rep[xs] = NULL
    THEN /\ _rep'[NewHandle] = _rep[ys]
         /\ AllocatedJust({})
    ELSE /\ Len(Copied(xs)) = Len(Nodes(heap, _rep[xs]))
         /\ AllocatedJust(Range(Copied(xs)))
         /\ Cardinality(Range(Copied(xs))) = Len(Nodes(heap, _rep[xs]))
         /\ heap'[Copied(xs)[Len(Copied(xs))]]._tail = _rep[ys]
         /\ _rep[ys] # NULL => heap'[_rep[ys]]._refs = heap[_rep[ys]]._refs + 1
         /\ \A n \in Live(heap) : SameNodeButRefs(n)

\* C9 as stated: ... and no node of xs has its _tail or its count changed.
C9_AppendLeavesXs ==
    [][ Did({"append"}) =>
        \A xs, ys \in Handle :
            append(xs, ys) =>
                /\ AppendShape(xs, ys)
                /\ \A n \in Range(Nodes(heap, _rep[xs])) :
                       heap'[n]._refs = heap[n]._refs ]_vars

\* C9 amended: append(xs, ys) on lvalues never copies or relinks ys and
\* relinks no node of xs; for empty xs the result holds the node ys holds;
\* otherwise the result is length(xs) new nodes, the last linked to the head
\* of ys, whose count rises by one, and no node of xs other than the head of
\* ys (when ys begins inside xs, as in append(xs, xs)) has its count changed.
C9_AppendLeavesXsButYsHead ==
    [][ Did({"append"}) =>
        \A xs, ys \in Handle :
            append(xs, ys) =>
                /\ AppendShape(xs, ys)
                /\ \A n \in Range(Nodes(heap, _rep[xs])) \ {_rep[ys]} :
                       heap'[n]._refs = heap[n]._refs ]_vars

\* C9 witness: append ran with both operands non-empty and distinct; the
\* last new node links to the head of ys.
C9_Witness ==
    /\ lastOp = "append"
    /\ \E d, ys \in InScope :
           /\ d # ys /\ _rep[d] # NULL /\ _rep[ys] # NULL /\ _rep[d] # _rep[ys]
           /\ heap[_rep[d]]._refs = 1
           /\ \E n \in Range(Nodes(heap, _rep[d])) :
                  /\ heap[n]._refs = 1 /\ heap[n]._tail = _rep[ys]
                  /\ HandleRefs(n) = 0 \/ n = _rep[d]

\* The nodes the step gave back to the allocator.
Freed == {n \in Live(heap) : heap'[n].st = "freed"}

\* The release of the node d held before the step: one reference less, and
\* the node deleted when that was the last one.
ReleasedOnce(old) ==
    old # NULL =>
        IF heap[old]._refs = 1 THEN old \in Freed
        ELSE heap'[old].st = "live" /\ heap'[old]._refs = heap[old]._refs - 1

\* What C10 states of copy construction and of copy assignment, but for the
\* count of the source's node after an assignment.
CopyShape ==
    /\ \A xs \in Handle :
           copy_construct(xs) /\ _rep[xs] # NULL =>
               /\ AllocatedJust({})
               /\ _rep'[NewHandle] = _rep[xs] /\ _rep'[xs] = _rep[xs]
               /\ heap'[_rep[xs]]._refs = heap[_rep[xs]]._refs + 1
    /\ \A d, xs \in Handle :
           copy_assign(d, xs) /\ _rep[xs] # NULL =>
               IF _rep[d] = _rep[xs]
               THEN UNCHANGED <<heap, _rep, scope>>
               ELSE /\ Unused(heap') = Unused(heap)
                    /\ _rep'[d] = _rep[xs] /\ _rep'[xs] = _rep[xs]
                    /\ heap'[_rep[xs]].st = "live"
                    /\ ReleasedOnce(_rep[d])

\* C10 as stated: ... and the assignment raises the count of the source's
\* node by exactly one.
C10_CopyAddsOne ==
    [][ Did({"copy_construct", "copy_assign"}) =>
        /\ CopyShape
        /\ \A d, xs \in Handle :
               copy_assign(d, xs) /\ _rep[xs] # NULL /\ _rep[d] # _rep[xs] =>
                   heap'[_rep[xs]]._refs = heap[_rep[xs]]._refs + 1 ]_vars

\* C10 amended: copying allocates nothing and makes both list objects hold
\* the same node; copy construction raises its count by one; copy assignment
\* releases the target's previous node once and then raises the count of the
\* source's node by one, so that it ends one higher - or unchanged, when the
\* release freed the node whose _tail was the source's node; assignment
\* between two objects holding the same node changes nothing.
C10_CopyAddsOneAfterRelease ==
    [][ Did({"copy_construct", "copy_assign"}) =>
        /\ CopyShape
        /\ \A d, xs \in Handle :
               copy_assign(d, xs) /\ _rep[xs] # NULL /\ _rep[d] # _rep[xs] =>
                   heap'[_rep[xs]]._refs =
                       heap[_rep[xs]]._refs + 1
                       - (IF \E m \in Freed : heap[m]._tail = _rep[xs] THEN 1 ELSE 0) ]_vars

\* C10 witness: a copy assignment over a non-empty target freed the target's
\* previous node, and the target now shares the source's node.
C10_Witness ==
    /\ lastOp = "copy_assign"
    /\ \E n \in Node : heap[n].st = "freed"
    /\ \E d, xs \in InScope \ {EMPTY} :
           d # xs /\ _rep[d] # NULL /\ _rep[d] = _rep[xs] /\ heap[_rep[d]]._refs >= 2

\* What C11 states of move construction and of move assignment, but for the
\* count of the source's node after an assignment.
MoveShape ==
    /\ \A xs \in Handle :
           move_construct(xs) =>
               /\ heap' = heap
               /\ _rep'[NewHandle] = _rep[xs] /\ _rep'[xs] = NULL
    /\ \A d, xs \in Handle :
           move_assign(d, xs) /\ (_rep[d] = NULL \/ _rep[d] # _rep[xs]) =>
               /\ Unused(heap') = Unused(heap)
               /\ _rep'[d] = _rep[xs] /\ _rep'[xs] = NULL
               /\ _rep[xs] # NULL => heap'[_rep[xs]].st = "live"
               /\ ReleasedOnce(_rep[d])

\* C11 as stated: ... and the assignment leaves the count of the source's
\* former node unchanged.
C11_MoveKeepsCount ==
    [][ Did({"move_construct", "move_assign"}) =>
        /\ MoveShape
        /\ \A d, xs \in Handle :
               move_assign(d, xs) /\ _rep[xs] # NULL /\ _rep[d] # _rep[xs] =>
                   heap'[_rep[xs]]._refs = heap[_rep[xs]]._refs ]_vars

\* C11 amended: move construction, and move assignment onto a target that
\* is empty or holds a different node, leave the source empty and make the
\* target hold the source's former node; a non-empty target's previous node
\* is released once; the count of the source's former node is unchanged - or
\* one lower, when that release freed the node whose _tail was that node.
C11_MoveKeepsCountAfterRelease ==
    [][ Did({"move_construct", "move_assign"}) =>
        /\ MoveShape
        /\ \A d, xs \in Handle :
               move_assign(d, xs) /\ _rep[xs] # NULL /\ _rep[d] # _rep[xs] =>
                   heap'[_rep[xs]]._refs =
                       heap[_rep[xs]]._refs
                       - (IF \E m \in Freed : heap[m]._tail = _rep[xs] THEN 1 ELSE 0) ]_vars

\* C11 witness: a move assignment over a non-empty target freed the target's
\* previous node; the source is left empty and the target holds a live node.
C11_Witness ==
    /\ lastOp = "move_assign"
    /\ \E n \in Node : heap[n].st = "freed"
    /\ \E d, xs \in InScope \ {EMPTY} :
           /\ d # xs /\ _rep[xs] = NULL /\ _rep[d] # NULL
           /\ heap[_rep[d]].st = "live" /\ heap[_rep[d]]._refs = 1

\* The step recorded `thrown` if list object xs was empty and `returned` if not.
ThrowsIffEmpty(xs, thrown, returned) ==
    /\ Values(heap, _rep[xs]) = <<>> => lastOp' = thrown /\ UNCHANGED <<heap, _rep, scope>>
    /\ Values(heap, _rep[xs]) # <<>> => lastOp' = returned

\* C12: head, tail, last and init throw std::domain_error, naming the
\* operation, on the empty list (and leave every list as it was), and return
\* normally on every non-empty list.
C12_ThrowOnEmpty ==
    [][ Did({"head", "head_throw", "tail", "tail_throw",
             "last", "last_throw", "init", "init_throw"}) =>
        \A xs \in Handle :
            /\ head(xs) => ThrowsIffEmpty(xs, "head_throw", "head")
            /\ tail(xs) => ThrowsIffEmpty(xs, "tail_throw", "tail")
            /\ last(xs) => ThrowsIffEmpty(xs, "last_throw", "last")
            /\ init(xs) => ThrowsIffEmpty(xs, "init_throw", "init") ]_vars

\* C12 witness: one of the four threw, on the empty one of two lists.
C12_Witness ==
    /\ lastOp \in {"head_throw", "tail_throw", "last_throw", "init_throw"}
    /\ \E xs, ys \in FnArg : _rep[xs] = NULL /\ _rep[ys] # NULL /\ scope[xs]

\* C13: append(xs, ys) shows the values of xs in order, then those of ys, so
\* its length is the sum of the two lengths, append(empty, ys) == ys and
\* append(xs, empty) == xs.
C13_AppendValues ==
    [][ Did({"append"}) =>
        \A xs, ys \in Handle :
            append(xs, ys) =>
                LET r == _rep'[NewHandle]
                IN  /\ Values(heap', r) = Values(heap, _rep[xs]) \o Values(heap, _rep[ys])
                    /\ length(heap', r) = length(heap, _rep[xs]) + length(heap, _rep[ys])
                    /\ null(_rep[xs]) => eq(heap', r, _rep'[ys])
                    /\ null(_rep[ys]) => eq(heap', r, _rep'[xs]) ]_vars

\* C13 witness: append ran on two non-empty lists of different values, and
\* the result reads as the first followed by the second.
C13_Witness ==
    /\ lastOp = "append" /\ scope[3]
    /\ _rep[1] # NULL /\ _rep[2] # NULL
    /\ Values(heap, _rep[1]) # Values(heap, _rep[2])
    /\ Values(heap, _rep[3]) = Values(heap, _rep[1]) \o Values(heap, _rep[2])

\* C14: for 0 <= k <= length(xs), append(take(k, xs), drop(k, xs)) == xs,
\* through the copying append and through operator+ on the two temporaries;
\* xs itself reads as before.
C14_TakeDropAppend ==
    [][ Did({"append_take_drop", "plus_take_drop"}) =>
        \A xs \in Handle, k \in 0..FnMaxK :
            (append_take_drop(k, xs) \/ plus_take_drop(k, xs))
            /\ k <= length(heap, _rep[xs]) =>
                /\ eq(heap', _rep'[NewHandle], _rep'[xs])
                /\ SameValues(xs) ]_vars

\* C14 witness: take(k, xs) + drop(k, xs) ran with k strictly inside a list
\* of three values, not all the same, and the result reads as xs.
C14_Witness ==
    /\ lastOp = "plus_take_drop" /\ scope[3]
    /\ \E xs \in FnArg :
           /\ Len(Values(heap, _rep[xs])) = 3
           /\ Values(heap, _rep[xs])[1] # Values(heap, _rep[xs])[3]
           /\ Values(heap, _rep[3]) = Values(heap, _rep[xs])
           /\ _rep[3] # _rep[xs]
           /\ \E n \in Range(Nodes(heap, _rep[3])) : n \in Range(Nodes(heap, _rep[xs]))

\* The sequence s read backwards.
Backwards(s) == [i \in 1..Len(s) |-> s[Len(s) + 1 - i]]

\* C15: reverse(xs) shows the values of xs in reverse order, so it is as
\* long as xs, reverse(empty) is empty, the reverse of a singleton equals it,
\* and reverse(reverse(xs)) == xs.
C15_ReverseValues ==
    [][ Did({"reverse", "reverse_reverse"}) =>
        \A xs \in Handle :
            /\ reverse(xs) =>
                   LET r == _rep'[NewHandle]
                   IN  /\ Values(heap', r) = Backwards(Values(heap, _rep[xs]))
                       /\ length(heap', r) = length(heap, _rep[xs])
                       /\ null(_rep[xs]) => null(r)
                       /\ length(heap, _rep[xs]) = 1 => eq(heap', r, _rep'[xs])
            /\ reverse_reverse(xs) => eq(heap', _rep'[NewHandle], _rep'[xs]) ]_vars

\* C15 witness: reverse ran on a list of three values whose first and last
\* differ, and the result reads backwards.
C15_Witness ==
    /\ lastOp = "reverse" /\ scope[3]
    /\ \E xs \in FnArg :
           /\ Len(Values(heap, _rep[xs])) = 3
           /\ Values(heap, _rep[xs])[1] # Values(heap, _rep[xs])[3]
           /\ Values(heap, _rep[3]) = Backwards(Values(heap, _rep[xs]))

Min(a, b) == IF a <= b THEN a ELSE b

\* C16: take(k, xs) shows the first min(k, length(xs)) values of xs in
\* order, and is empty when k = 0 or xs is empty.
C16_TakeValues ==
    [][ Did({"take"}) =>
        \A xs \in Handle, k \in 0..FnMaxK :
            take(k, xs) =>
                LET r == _rep'[NewHandle]
                    v == Values(heap, _rep[xs])
                IN  /\ Values(heap', r) = SubSeq(v, 1, Min(k, Len(v)))
                    /\ k = 0 \/ null(_rep[xs]) => null(r) ]_vars

\* C16 witness: take ran on a list of three values and the result is its
\* first two, which differ.
C16_Witness ==
    /\ lastOp = "take" /\ scope[3]
    /\ \E xs \in FnArg :
           /\ Len(Values(heap, _rep[xs])) = 3
           /\ Values(heap, _rep[3]) = SubSeq(Values(heap, _rep[xs]), 1, 2)
           /\ Values(heap, _rep[3])[1] # Values(heap, _rep[3])[2]

\* C17 as stated: take(k, xs) with k greater than length(xs) yields the
\* empty list.
C17_TakeBeyondLengthEmpty ==
    [][ Did({"take"}) =>
        \A xs \in Handle, k \in 0..FnMaxK :
            take(k, xs) /\ k > length(heap, _rep[xs]) => null(_rep'[NewHandle]) ]_vars

\* C17 amended: take(k, xs) with k greater than length(xs) yields a list
\* equal to xs, in nodes of its own: the empty list only when xs is empty.
C17_TakeBeyondLengthAll ==
    [][ Did({"take"}) =>
        \A xs \in Handle, k \in 0..FnMaxK :
            take(k, xs) /\ k > length(heap, _rep[xs]) =>
                LET r == _rep'[NewHandle]
                IN  /\ eq(heap', r, _rep'[xs])
                    /\ Values(heap', r) = Values(heap, _rep[xs])
                    /\ null(r) <=> null(_rep[xs])
                    /\ Range(Nodes(heap', r)) \subseteq Unused(heap) ]_vars

\* C17 witness: take ran and its result is a full copy, in other nodes, of
\* a list of two different values (as take(3, [1,2]) gives).
C17_Witness ==
    /\ lastOp = "take" /\ scope[3]
    /\ \E xs \in FnArg :
           /\ Len(Values(heap, _rep[xs])) = 2
           /\ Values(heap, _rep[xs])[1] # Values(heap, _rep[xs])[2]
           /\ Values(heap, _rep[3]) = Values(heap, _rep[xs])
           /\ Range(Nodes(heap, _rep[3])) \cap Range(Nodes(heap, _rep[xs])) = {}

\* C18: drop(k, xs) allocates nothing and changes no node but one count:
\* for k = 0 the result holds the node xs holds, for 0 < k < length(xs) the
\* node k links after the head of xs, whose count rises by one, and for
\* k >= length(xs) the result is empty.
C18_DropShares ==
    [][ Did({"drop"}) =>
        \A xs \in Handle, k \in 0..MaxK :
            drop(k, xs) =>
                LET r == _rep'[NewHandle]
                    c == Nodes(heap, _rep[xs])
                IN  /\ AllocatedJust({})
                    /\ \A n \in Live(heap) :
                           /\ SameNodeButRefs(n)
                           /\ heap'[n]._refs = heap[n]._refs + (IF n = r THEN 1 ELSE 0)
                    /\ k = 0 => r = _rep[xs]
                    /\ 0 < k /\ k < Len(c) => r = c[k + 1]
                    /\ k >= Len(c) => r = NULL ]_vars

\* C18 witness: drop ran and its result holds the second node of another
\* list's chain, counted by that chain's head and by the result.
C18_Witness ==
    /\ lastOp = "drop"
    /\ \E d, xs \in InScope :
           /\ d # xs /\ _rep[xs] # NULL /\ _rep[d] # NULL
           /\ _rep[d] = heap[_rep[xs]]._tail
           /\ HandleRefs(_rep[d]) = 1
           /\ heap[_rep[d]]._refs >= 2

\* C19: a negative k handed to the parameter `unsigned k` is treated like
\* zero: drop(-1, xs) is xs and take(-1, xs) is the empty list.
C19_NegativeLikeZero ==
    [][ Did({"take", "drop"}) =>
        \A xs \in Handle, k \in (0 - FnMaxK)..(0 - 1) :
            /\ drop(unsigned(k), xs) =>
                   /\ eq(heap', _rep'[NewHandle], _rep'[xs])
                   /\ _rep'[NewHandle] = _rep[xs]
            /\ take(unsigned(k), xs) => null(_rep'[NewHandle]) ]_vars

\* The values of s for which predicate p holds, in order.
Matching(p, s) == SelectSeq(s, LAMBDA x : Holds(p, x))

\* C20: filter(p, xs) shows, in order and with their multiplicity, exactly
\* the values of xs for which p holds; so filter(alwaysTrue, xs) == xs and
\* filter(alwaysFalse, xs) is empty.
C20_FilterValues ==
    [][ Did({"filter"}) =>
        \A xs \in Handle, p \in Pred :
            filter(p, xs) =>
                LET r == _rep'[NewHandle]
                IN  /\ Values(heap', r) = Matching(p, Values(heap, _rep[xs]))
                    /\ p = "alwaysTrue" => eq(heap', r, _rep'[xs])
                    /\ p = "alwaysFalse" => null(r) ]_vars

\* C20 witness: filter ran on a list of three values whose first is odd and
\* whose other two are even, and the result is those two.
C20_Witness ==
    /\ lastOp = "filter" /\ scope[3]
    /\ \E xs \in FnArg :
           /\ Len(Values(heap, _rep[xs])) = 3
           /\ ~Holds("even", Values(heap, _rep[xs])[1])
           /\ Len(Values(heap, _rep[3])) = 2
           /\ Values(heap, _rep[3]) = Matching("even", Values(heap, _rep[xs]))

\* C21: map(f, xs) is a chain of new nodes showing f(x1)..f(xn) in order,
\* as long as xs, with every node of xs as it was; map(identity, xs) == xs
\* and map of the empty list is empty.
C21_MapValues ==
    [][ Did({"map"}) =>
        \A xs \in Handle, f \in Fn :
            map(f, xs) =>
                LET r == _rep'[NewHandle]
                    v == Values(heap, _rep[xs])
                IN  /\ Values(heap', r) = [i \in 1..Len(v) |-> Apply(f, v[i])]
                    /\ length(heap', r) = length(heap, _rep[xs])
                    /\ AllocatedJust(Range(Nodes(heap', r)))
                    /\ \A n \in Live(heap) : heap'[n] = heap[n]
                    /\ f = "id" => eq(heap', r, _rep'[xs])
                    /\ null(_rep[xs]) => null(r) ]_vars

\* C21 witness: map ran on a list of three values and the result shows
\* their squares, which are not the values themselves.
C21_Witness ==
    /\ lastOp = "map" /\ scope[3]
    /\ \E xs \in FnArg :
           LET v == Values(heap, _rep[xs])
           IN  /\ Len(v) = 3
               /\ Values(heap, _rep[3]) = [i \in 1..3 |-> v[i] * v[i]]
               /\ Values(heap, _rep[3])[1] # v[1]

\* C22: xs == ys is true exactly when xs and ys show the same values in the
\* same order (so have the same length), whether or not they share nodes.
C22_EqualityStructural ==
    [][ Did({"eq_true", "eq_false"}) =>
        \A xs \in FnArg, ys \in Mutable :
            equals(xs, ys) =>
                /\ lastOp' = "eq_true" <=> Values(heap, _rep[xs]) = Values(heap, _rep[ys])
                /\ _rep[xs] = _rep[ys] => lastOp' = "eq_true"
                /\ length(heap, _rep[xs]) # length(heap, _rep[ys]) => lastOp' = "eq_false" ]_vars

\* C22 witness: == answered true while the two argument lists are separately
\* built chains of three nodes with the same values.
C22_Witness ==
    /\ lastOp = "eq_true" /\ ~scope[3]
    /\ Len(Values(heap, _rep[1])) = 3
    /\ Values(heap, _rep[1]) = Values(heap, _rep[2])
    /\ Range(Nodes(heap, _rep[1])) \cap Range(Nodes(heap, _rep[2])) = {}

\* C23: on a non-empty list xs, last(xs) is the final value and init(xs)
\* shows all values but the final one, in order, in length(xs) - 1 nodes
\* (none for a singleton); append(init(xs), [last(xs)]) == xs.
C23_LastInitValues ==
    [][ Did({"last", "init", "append_init_last"}) =>
        \A xs \in Handle :
            LET v == Values(heap, _rep[xs])
            IN  /\ last(xs) /\ v # <<>> =>
                       last_fn(heap, _rep[xs]).value = v[Len(v)]
                /\ init(xs) /\ v # <<>> =>
                       /\ Values(heap', _rep'[NewHandle]) = SubSeq(v, 1, Len(v) - 1)
                       /\ length(heap', _rep'[NewHandle]) = length(heap, _rep[xs]) - 1
                       /\ Len(v) = 1 => null(_rep'[NewHandle])
                /\ append_init_last(xs) /\ v # <<>> =>
                       eq(heap', _rep'[NewHandle], _rep'[xs]) ]_vars

\* C23 witness: append(init(xs), [last(xs)]) ran on a list of three values
\* whose last differs from the others, and the result reads as xs in nodes
\* of its own.
C23_Witness ==
    /\ lastOp = "append_init_last" /\ scope[3]
    /\ \E xs \in FnArg :
           LET v == Values(heap, _rep[xs])
           IN  /\ Len(v) = 3 /\ v[3] # v[1] /\ v[3] # v[2]
               /\ Values(heap, _rep[3]) = v
               /\ Range(Nodes(heap, _rep[3])) \cap Range(Nodes(heap, _rep[xs])) = {}

\* The fold of + over s from the left, starting from acc.
RECURSIVE FoldPlus(_, _)
FoldPlus(acc, s) == IF s = <<>> THEN acc ELSE FoldPlus(acc + Head(s), Tail(s))

\* C24: sum(xs) is the left-to-right fold of + over the values of xs from
\* zero: sum(empty) = 0, sum(cons(x, xs)) = x + sum(xs), and
\* sum(map(square, [1,2,3])) = 14.
C24_SumFold ==
    [][ Did({"sum", "cons", "map"}) =>
        \A xs \in Handle :
            /\ sum(xs) =>
                   /\ sum_fn(heap, _rep[xs]) = FoldPlus(0, Values(heap, _rep[xs]))
                   /\ null(_rep[xs]) => sum_fn(heap, _rep[xs]) = 0
            /\ \A x \in FnVal :
                   cons(x, xs) =>
                       sum_fn(heap', _rep'[NewHandle]) = x + sum_fn(heap, _rep[xs])
            /\ map("square", xs) /\ Values(heap, _rep[xs]) = <<1, 2, 3>> =>
                   sum_fn(heap', _rep'[NewHandle]) = 14 ]_vars

\* C24 witness: map(square, [1,2,3]) ran, and the sum of its result is 14.
C24_Witness ==
    /\ lastOp = "map" /\ scope[3]
    /\ \E xs \in FnArg : Values(heap, _rep[xs]) = <<1, 2, 3>>
    /\ Values(heap, _rep[3]) = <<1, 4, 9>>
    /\ sum_fn(heap, _rep[3]) = 14

\* The values of s in decimal, in order, with a comma between neighbours.
RECURSIVE Joined(_)
Joined(s) ==
    IF s = <<>> THEN <<>>
    ELSE IF Len(s) = 1 THEN show(s[1])
    ELSE show(s[1]) \o <<",">> \o Joined(Tail(s))

Commas(os) == Cardinality({i \in DOMAIN os : os[i] = ","})

\* C25: writing a list to a stream produces '[', the values in order
\* separated by single commas without spaces, and ']': "[]" for the empty
\* list, no comma for a single value.
C25_Rendering ==
    [][ Did({"render"}) =>
        \A xs \in Handle :
            render(xs) =>
                LET v  == Values(heap, _rep[xs])
                    os == render_fn(heap, _rep[xs])
                IN  /\ os = <<"[">> \o Joined(v) \o <<"]">>
                    /\ v = <<>> => os = <<"[", "]">>
                    /\ Len(v) = 1 => Commas(os) = 0
                    /\ v # <<>> => Commas(os) = Len(v) - 1
                    /\ \A i \in DOMAIN os : os[i] # " " ]_vars

\* C25 witness: a list of three values was written, with two commas.
C25_Witness ==
    /\ lastOp = "render"
    /\ \E xs \in FnArg :
           /\ Values(heap, _rep[xs]) = <<1, 2, 3>>
           /\ render_fn(heap, _rep[xs]) = <<"[", "1", ",", "2", ",", "3", "]">>

\* C26: after any sequence of operations, the rvalue appends on aliasing
\* operands included, following _tail from any live node reaches null: the
\* _tail links form no cycle.
C26_NoCycle == \A n \in Live(heap) : Finite(heap, n)

\* The chain the step returned for input xs, when not empty, is made of
\* nodes the step allocated, none a node of xs, each counting one reference;
\* releasing the result frees those nodes and no other, and leaves the nodes
\* of xs live and counted as before the step.
OwnChain(xs) ==
    LET r   == _rep'[NewHandle]
        new == Range(Nodes(heap', r))
        old == Range(Nodes(heap, _rep[xs]))
        h2  == release(heap', r)
    IN  r # NULL =>
            /\ AllocatedJust(new)
            /\ new \cap old = {}
            /\ \A n \in new : heap'[n]._refs = 1
            /\ \A n \in new : h2[n].st = "freed"
            /\ \A n \in DOMAIN heap \ new : h2[n] = heap'[n]
            /\ \A n \in old : h2[n].st = "live" /\ h2[n]._refs = heap[n]._refs

\* C27: a non-empty chain returned by map, filter, take or reverse consists
\* only of nodes allocated by the call, none a node of the input and each
\* with _refs = 1; destroying the result frees exactly those nodes and
\* leaves every input node live with its count unchanged.
C27_ResultOwnsItsNodes ==
    [][ Did({"map", "filter", "take", "reverse"}) =>
        \A xs \in Handle :
            \/ \E f \in Fn : map(f, xs)
            \/ \E p \in Pred : filter(p, xs)
            \/ \E k \in 0..MaxK : take(k, xs)
            \/ reverse(xs)
            => OwnChain(xs) ]_vars

\* C27 witness: reverse returned a chain of two nodes of its own, each
\* counting one reference, beside the input list of two nodes.
C27_Witness ==
    /\ lastOp = "reverse"
    /\ \E d, xs \in InScope :
           /\ Len(Nodes(heap, _rep[d])) = 2 /\ Len(Nodes(heap, _rep[xs])) = 2
           /\ Range(Nodes(heap, _rep[d])) \cap Range(Nodes(heap, _rep[xs])) = {}
           /\ \A n \in Range(Nodes(heap, _rep[d])) : heap[n]._refs = 1
           /\ Values(heap, _rep[d]) = Backwards(Values(heap, _rep[xs]))

\* C28: operator+(list&&, list&&) with a non-empty left operand that is
\* another object than the right one leaves both operands empty, allocates
\* no node, changes no reference count, and returns the left operand's
\* former head, the last node of that chain now linking to the right
\* operand's former head.
C28_SpliceFrame ==
    [][ Did({"append_rr"}) =>
        \A xs, ys \in Handle :
            append_rr(xs, ys) /\ _rep[xs] # NULL /\ xs # ys =>
                /\ _rep'[xs] = NULL /\ _rep'[ys] = NULL
                /\ AllocatedJust({})
                /\ \A n \in Node : heap'[n]._refs = heap[n]._refs
                /\ _rep'[NewHandle] = _rep[xs]
                /\ heap'[last_node(heap, _rep[xs])]._tail = _rep[ys]
                /\ \A n \in Node \ {last_node(heap, _rep[xs])} : heap'[n] = heap[n]
                /\ \A d \in Handle \ {xs, ys, NewHandle} : _rep'[d] = _rep[d] ]_vars

\* C28 witness: two lists of one node each were appended as rvalues; both
\* operands are empty and the result is the first node linked to the second.
C28_Witness ==
    /\ lastOp = "append_rr"
    /\ scope[1] /\ scope[2] /\ scope[3]
    /\ _rep[1] = NULL /\ _rep[2] = NULL
    /\ Len(Nodes(heap, _rep[3])) = 2
    /\ \A n \in Range(Nodes(heap, _rep[3])) : heap[n]._refs = 1

\* C29: in the std::shared_ptr-backed List, filter(pred, xs) returns, in
\* order, exactly the values of xs that satisfy pred, for every xs and pred,
\* an xs with some value satisfying pred included.
C29_SharedFilterValues ==
    [][ Did({"shared_filter", "shared_filter_fault"}) =>
        \A xs \in Handle, p \in Pred :
            shared_filter(p, xs) =>
                /\ lastOp' = "shared_filter"
                /\ shared_Values(heap', _rep'[NewHandle])
                       = Matching(p, shared_Values(heap, _rep[xs])) ]_vars

\* What does hold of that filter: when no value of xs satisfies pred, it
\* returns the empty list.
C29_SharedFilterNoneMatching ==
    [][ Did({"shared_filter", "shared_filter_fault"}) =>
        \A xs \in Handle, p \in Pred :
            shared_filter(p, xs) /\ Matching(p, shared_Values(heap, _rep[xs])) = <<>> =>
                /\ lastOp' = "shared_filter"
                /\ _rep'[NewHandle] = NULL ]_vars

\* After the step, list object a holds a chain of live nodes that reads the
\* values b had, shares no node with b, and b is as it was.
IndependentCopy(a, b) ==
    LET c == Range(Nodes(heap', _rep'[a]))
    IN  /\ \A n \in c : heap'[n].st = "live"
        /\ deep_Values(heap', _rep'[a]) = deep_Values(heap, _rep[b])
        /\ a # b =>
               /\ _rep'[b] = _rep[b]
               /\ \A n \in Range(Nodes(heap, _rep[b])) : heap'[n] = heap[n]
               /\ c \cap Range(Nodes(heap, _rep[b])) = {}

\* The step freed every node of d's chain, each of them live before it, and
\* no node shows a second delete or a use after delete.
FreedOnce(d) ==
    /\ \A n \in Range(Nodes(heap, _rep[d])) :
           heap[n].st = "live" /\ heap'[n].st = "freed"
    /\ \A n \in DOMAIN heap : heap'[n].st # "corrupt"

\* C30: in the raw-pointer deep-copying List, after a = b (b empty and a
\* not included) a holds an independent element-wise copy of b, and the
\* destruction of the list objects afterwards frees every node exactly once:
\* no node is freed twice and no freed node is reachable from a.
C30_DeepAssignThenDestroy ==
    [][ Did({"deep_assign", "deep_assign_fault", "deep_destroy"}) =>
        /\ \A a, b \in Handle :
               deep_copy_assign(a, b) =>
                   /\ lastOp' = "deep_assign"
                   /\ IndependentCopy(a, b)
                   /\ \A n \in DOMAIN heap : heap'[n].st # "corrupt"
        /\ \A d \in Handle : deep_destroy(d) => FreedOnce(d) ]_vars

\* What does hold of that assignment: when it comes back to its caller, b
\* is not empty and a is another object than b, a is such a copy.
C30_DeepAssignFromNonEmpty ==
    [][ Did({"deep_assign"}) =>
        \A a, b \in Handle :
            /\ deep_copy_assign(a, b) /\ a # b /\ _rep[b] # NULL
            /\ \A n \in Range(Nodes(heap, _rep[a]) \o Nodes(heap, _rep[b])) :
                   heap[n].st = "live"
            => IndependentCopy(a, b) ]_vars

TypeOK ==
    /\ \A n \in Node : heap[n].st \in {"unused", "live", "freed", "corrupt"}
    /\ \A h \in Handle : _rep[h] \in Node \cup {NULL}
====
